---- MODULE Spec2Model ----
(***************************************************************************)
(* Model of static/sourcecode/scoring_rules.py: the ScoringRule variants   *)
(* and apply_scoring_rules, the engine that applies an ordered list of     *)
(* rules to a table of notes.                                              *)
(*                                                                         *)
(* One ApplyRule step is one iteration of the loop of lines 213-242, one   *)
(* Finish step is lines 243-267.  The engine reads the rule list strictly  *)
(* front to back, so the list is drawn one rule per iteration and kept in  *)
(* `rules`; a second invocation (Rerun) replays the same list.  A failed   *)
(* assertion stops the run: pc = "failed", failure names the assertion.    *)
(***************************************************************************)
EXTENDS Integers, Sequences, FiniteSets, TLC

VARIABLES
  noteStats,     \* input table: note id -> [intercept, adjusted, ratio]
  rules,         \* the rule list, as far as the loop has read it
  run,           \* 1: first invocation, 2: second invocation on the same inputs
  pc,            \* "loop" | "done" | "failed"
  i,             \* number of loop iterations started in this invocation
  ruleIDs,       \* line 211
  noteLabels,    \* line 203: rows <<note id, ratingStatus>>
  noteRules,     \* line 206: rows <<note id, rule name>>
  noteColumns,   \* line 209: table of supplemental columns
  calls,         \* the score_notes invocations of this run, arguments and results
  failure,       \* the assertion that stopped the run, or "none"
  scoredNotes,   \* the returned table, or None
  firstRun       \* outcome of the first invocation, recorded when the second starts

vars == <<noteStats, rules, run, pc, i, ruleIDs, noteLabels, noteRules,
          noteColumns, calls, failure, scoredNotes, firstRun>>

(***************************** bounds **************************************)

MaxNotes == 2
MaxRules == 3

NoteIds == 1..MaxNotes

\* An optional value: None, or Some(v) holding v.
None == <<>>
Some(v) == <<v>>
Get(opt) == opt[1]

NaN == "NaN"
NoFunction == "none"

(************************ constants module *********************************)

currentlyRatedHelpful == "CURRENTLY_RATED_HELPFUL"
currentlyRatedNotHelpful == "CURRENTLY_RATED_NOT_HELPFUL"
needsMoreRatings == "NEEDS_MORE_RATINGS"

activeFilterTagsKey == "activeFilterTags"

notHelpfulHardToUnderstandKey == "hardToUnderstand"
notHelpfulNoteNotNeededKey == "noteNotNeeded"

\* The fixed ordered list of negative tags.
notHelpfulTagsTSVOrder ==
  <<"spam", notHelpfulHardToUnderstandKey, "harassment", notHelpfulNoteNotNeededKey>>

Tags == {notHelpfulTagsTSVOrder[k] : k \in 1..Len(notHelpfulTagsTSVOrder)}

(***************************** RuleID **************************************)

\* The enum members and their RuleAndVersion values.
RuleID == {"INITIAL_NMR", "GENERAL_CRH", "GENERAL_CRNH", "TAG_OUTLIER"}

RuleAndVersion(ruleID) ==
  CASE ruleID = "INITIAL_NMR"  -> [ruleName |-> "InitialNMR",  ruleVersion |-> "1.0"]
    [] ruleID = "GENERAL_CRH"  -> [ruleName |-> "GeneralCRH",  ruleVersion |-> "1.0"]
    [] ruleID = "GENERAL_CRNH" -> [ruleName |-> "GeneralCRNH", ruleVersion |-> "1.0"]
    [] ruleID = "TAG_OUTLIER"  -> [ruleName |-> "TagFilter",   ruleVersion |-> "1.0"]

(*************************** ScoringRule ***********************************)

\* A rule object: the fields set by the constructors.  kind names the class;
\* function, the tag filter parameters and result are used by the kind they
\* belong to and hold a default otherwise.
ScoringRule(ruleID, status, dependencies, kind, function, result) ==
  [ruleID |-> ruleID, status |-> status, dependencies |-> dependencies,
   kind |-> kind, function |-> function,
   minAdjustedTotal |-> 1, crhSuperThreshold |-> 2, tagRatioPercentile |-> 95,
   result |-> result]

get_rule_id(rule) == rule.ruleID

get_name(rule) ==
  RuleAndVersion(rule.ruleID).ruleName \o " (v"
    \o RuleAndVersion(rule.ruleID).ruleVersion \o ")"

get_status(rule) == rule.status

check_dependencies_skipped(rule, priorRules) == TRUE

check_dependencies_whole_list(rule, priorRules) ==
  /\ (rule.dependencies \ priorRules) = {}
  /\ \A k \in 1..Len(rules) :
       (rules[k].dependencies \ {rules[j].ruleID : j \in 1..(k - 1)}) = {}

check_dependencies_after_add(rule, priorRules) ==
  (rule.dependencies \ (priorRules \cup {rule.ruleID})) = {}

\* TRUE when the assertion of line 62 passes.
check_dependencies(rule, priorRules) == (rule.dependencies \ priorRules) = {}

(***************************** tables **************************************)

\* The ids of S in ascending order (the row order of a table keyed by id).
RECURSIVE SetToSeq(_)
SetToSeq(S) ==
  IF S = {} THEN <<>>
  ELSE LET m == CHOOSE x \in S : \A y \in S : x <= y
       IN <<m>> \o SetToSeq(S \ {m})

\* ",".join(strs)
RECURSIVE Join(_)
Join(strs) ==
  IF strs = <<>> THEN ""
  ELSE IF Len(strs) = 1 THEN strs[1]
  ELSE strs[1] \o "," \o Join(Tail(strs))

RECURSIVE SumOver(_, _)
SumOver(f, S) ==
  IF S = {} THEN 0
  ELSE LET x == CHOOSE y \in S : TRUE IN f[x] + SumOver(f, S \ {x})

\* A table of supplemental columns keyed by note id: its column names other
\* than the id column, and per id the number of rows it holds for that id and
\* the values of those rows.
Table(columns, rows) == [columns |-> columns, rows |-> rows]

EmptyRows == [id \in {} |-> [count |-> 0, vals |-> [f \in {} |-> NaN]]]

TableIds(table) == DOMAIN table.rows

\* noteColumns.merge(additionalColumns, on=noteIdKey, how="outer")
OuterMerge(left, right) ==
  LET cols == left.columns \cup right.columns
      ValueOf(id, f) ==
        IF f \in left.columns /\ id \in TableIds(left) THEN left.rows[id].vals[f]
        ELSE IF f \in right.columns /\ id \in TableIds(right) THEN right.rows[id].vals[f]
        ELSE NaN
      CountOf(id) ==
        (IF id \in TableIds(left) THEN left.rows[id].count ELSE 1)
          * (IF id \in TableIds(right) THEN right.rows[id].count ELSE 1)
  IN Table(cols,
           [id \in TableIds(left) \cup TableIds(right) |->
              [count |-> CountOf(id), vals |-> [f \in cols |-> ValueOf(id, f)]]])

(************************ score_notes variants *****************************)

ScoreResult(activeNotes, additionalColumns) ==
  [activeNotes |-> activeNotes, additionalColumns |-> additionalColumns]

NoResult == ScoreResult({}, None)

DefaultRule_score_notes_unlabelled(rule, stats, currentLabels) ==
  ScoreResult(DOMAIN stats \ {currentLabels[n][1] : n \in 1..Len(currentLabels)}, None)

\* DefaultRule.score_notes
DefaultRule_score_notes(rule, stats, currentLabels) ==
  ScoreResult(DOMAIN stats, None)

\* The boolean functions a RuleFromFunction wraps, evaluated on one row.
FunctionValue(function, row) ==
  CASE function = "always" -> TRUE
    [] function = "interceptAbove0" -> row.intercept > 0
    [] function = "interceptBelow1" -> row.intercept < 1

\* RuleFromFunction.score_notes
RuleFromFunction_score_notes(rule, stats, currentLabels) ==
  ScoreResult({id \in DOMAIN stats : FunctionValue(rule.function, stats[id])}, None)

\* tag_filter.get_tag_thresholds: the threshold of each tag's adjusted ratio
\* column, as returned by the threshold provider.
get_tag_thresholds(crhStats, tagRatioPercentile) ==
  [tag \in Tags |-> IF tag = "harassment" THEN 2 ELSE 1]

tagFilteredNotes_inclusive(rule, crhStats, thresholds, tag) ==
  {id \in DOMAIN crhStats :
     /\ crhStats[id].adjusted[tag] > rule.minAdjustedTotal
     /\ crhStats[id].ratio[tag] > thresholds[tag]
     /\ crhStats[id].intercept <= rule.crhSuperThreshold}

\* Lines 165-172: the ids selected for one tag.
tagFilteredNotes(rule, crhStats, thresholds, tag) ==
  {id \in DOMAIN crhStats :
     /\ crhStats[id].adjusted[tag] > rule.minAdjustedTotal
     /\ crhStats[id].ratio[tag] > thresholds[tag]
     /\ crhStats[id].intercept < rule.crhSuperThreshold}

RECURSIVE impactedNotes_no_exemption(_, _, _, _)
impactedNotes_no_exemption(rule, crhStats, thresholds, k) ==
  IF k = 0 THEN <<>>
  ELSE LET tag == notHelpfulTagsTSVOrder[k]
           before == impactedNotes_no_exemption(rule, crhStats, thresholds, k - 1)
           ids == SetToSeq(tagFilteredNotes(rule, crhStats, thresholds, tag))
       IN before \o [n \in 1..Len(ids) |-> <<ids[n], tag>>]

\* Lines 153-175: the rows <<id, tag>> of impactedNotes after the first k tags.
RECURSIVE impactedNotes(_, _, _, _)
impactedNotes(rule, crhStats, thresholds, k) ==
  IF k = 0 THEN <<>>
  ELSE LET tag == notHelpfulTagsTSVOrder[k]
           before == impactedNotes(rule, crhStats, thresholds, k - 1)
           ids == SetToSeq(tagFilteredNotes(rule, crhStats, thresholds, tag))
       IN IF tag = notHelpfulHardToUnderstandKey \/ tag = notHelpfulNoteNotNeededKey
          THEN before
          ELSE before \o [n \in 1..Len(ids) |-> <<ids[n], tag>>]

RECURSIVE GroupList_reversed(_, _)
GroupList_reversed(rows, id) ==
  IF rows = <<>> THEN <<>>
  ELSE GroupList_reversed(Tail(rows), id) \o (IF rows[1][1] = id THEN <<rows[1][2]>> ELSE <<>>)

\* groupby(noteIdKey).aggregate(list): the second components of the rows of
\* id, in row order.
RECURSIVE GroupList(_, _)
GroupList(rows, id) ==
  IF rows = <<>> THEN <<>>
  ELSE (IF rows[1][1] = id THEN <<rows[1][2]>> ELSE <<>>) \o GroupList(Tail(rows), id)

RowIds(rows) == {rows[n][1] : n \in 1..Len(rows)}

\* Lines 143-145: the ids currently labelled helpful.
crhNotes(currentLabels) ==
  {currentLabels[n][1] :
     n \in {m \in 1..Len(currentLabels) : currentLabels[m][2] = currentlyRatedHelpful}}

\* FilterTagOutliers.score_notes
FilterTagOutliers_score_notes(rule, stats, currentLabels) ==
  LET crhIds == DOMAIN stats \cap crhNotes(currentLabels)
      crhStats == [id \in crhIds |-> stats[id]]
      thresholds == get_tag_thresholds(crhStats, rule.tagRatioPercentile)
      pairs == impactedNotes(rule, crhStats, thresholds, Len(notHelpfulTagsTSVOrder))
      impacted ==
        Table({activeFilterTagsKey},
              [id \in RowIds(pairs) |->
                 [count |-> 1,
                  vals |-> [f \in {activeFilterTagsKey} |-> Join(GroupList(pairs, id))]]])
  IN ScoreResult(TableIds(impacted), Some(impacted))

\* score_notes of any other ScoringRule subclass: the ids and the optional
\* table it returns.
Custom_score_notes(rule, stats, currentLabels) == rule.result

\* rule.score_notes(noteStats, noteLabels), dispatched on the rule's class.
score_notes(rule, stats, currentLabels) ==
  CASE rule.kind = "DefaultRule" -> DefaultRule_score_notes(rule, stats, currentLabels)
    [] rule.kind = "RuleFromFunction" -> RuleFromFunction_score_notes(rule, stats, currentLabels)
    [] rule.kind = "FilterTagOutliers" -> FilterTagOutliers_score_notes(rule, stats, currentLabels)
    [] rule.kind = "Custom" -> Custom_score_notes(rule, stats, currentLabels)

(*********************** apply_scoring_rules *******************************)

\* Lines 203-211: the state a run starts with.
EmptyLabels == <<>>

EmptyNoteRules == <<>>

EmptyNoteColumns == Table({}, EmptyRows)

StaleRuleIDs == ruleIDs

EmptyRuleIDs == {}

RuleIdIsNew_skipped(rule, priorRules) == TRUE

\* Line 216: TRUE when the assertion passes.
RuleIdIsNew(rule, priorRules) == get_rule_id(rule) \notin priorRules

SupplementalIdsMatch_subset(result) ==
  result.additionalColumns # None
    => result.activeNotes \subseteq TableIds(Get(result.additionalColumns))

\* Lines 219-220: TRUE when the assertion passes.
SupplementalIdsMatch(result) ==
  result.additionalColumns # None
    => result.activeNotes = TableIds(Get(result.additionalColumns))

\* groupby(noteIdKey).tail(1): the rows that are the last of their id, in
\* row order.
RECURSIVE TailOne(_)
TailOne(rows) ==
  IF rows = <<>> THEN <<>>
  ELSE (IF \E n \in 2..Len(rows) : rows[n][1] = rows[1][1] THEN <<>> ELSE <<rows[1]>>)
         \o TailOne(Tail(rows))

\* groupby(noteIdKey).head(1): the rows that are the first of their id.
RECURSIVE HeadOne(_)
HeadOne(rows) ==
  IF rows = <<>> THEN <<>>
  ELSE LET n == Len(rows)
           front == SubSeq(rows, 1, n - 1)
       IN HeadOne(front)
            \o (IF \E m \in 1..(n - 1) : rows[m][1] = rows[n][1] THEN <<>> ELSE <<rows[n]>>)

\* Line 226: one row <<id, status>> per matched note.
StatusRows(activeNotes, status) ==
  LET ids == SetToSeq(activeNotes)
  IN [n \in 1..Len(ids) |-> <<ids[n], status>>]

UpdateLabelsKeepFirst(labels, activeNotes, status) ==
  HeadOne(labels \o StatusRows(activeNotes, status))

UpdateLabels_concat(labels, activeNotes, status) ==
  labels \o StatusRows(activeNotes, status)

UpdateLabels_overwrite(labels, activeNotes, status) ==
  [n \in 1..Len(TailOne(labels \o StatusRows(activeNotes, status))) |->
     <<TailOne(labels \o StatusRows(activeNotes, status))[n][1], status>>]

\* Lines 222-231: concat the rule's rows, keep the last row of each id.
UpdateLabels(labels, activeNotes, status) ==
  TailOne(labels \o StatusRows(activeNotes, status))

UpdateRules_prepend(rows, activeNotes, name) ==
  LET ids == SetToSeq(activeNotes)
  IN [n \in 1..Len(ids) |-> <<ids[n], name>>] \o rows

\* Lines 233-238: one row per note the rule was active for.
UpdateRules(rows, activeNotes, name) ==
  LET ids == SetToSeq(activeNotes)
  IN rows \o [n \in 1..Len(ids) |-> <<ids[n], name>>]

ColumnsDisjoint_skipped(columns, additionalColumns) == TRUE

\* Line 241: TRUE when the two tables share the id column only.
ColumnsDisjoint(columns, additionalColumns) ==
  columns.columns \cap additionalColumns.columns = {}

\* Lines 245-248: one row per note, the names of its rules comma-joined.
CondenseRules(rows) ==
  [id \in RowIds(rows) |-> Join(GroupList(rows, id))]

MergeScored_inner(stats, labels, condensed, columns) ==
  [id \in ((DOMAIN stats \cap RowIds(labels)) \cap DOMAIN condensed) \cap TableIds(columns) |->
     LET statuses == GroupList(labels, id)
         status == statuses[Len(statuses)]
     IN [ratingStatus |-> status,
         activeRules |-> condensed[id],
         count |-> Len(statuses) * columns.rows[id].count,
         vals |-> [f \in columns.columns |-> columns.rows[id].vals[f]],
         currentlyRatedHelpfulBool |-> status = currentlyRatedHelpful,
         currentlyRatedNotHelpfulBool |-> status = currentlyRatedNotHelpful,
         awaitingMoreRatingsBool |-> status = needsMoreRatings]]

MergeScored_swapped(stats, labels, condensed, columns) ==
  [id \in (DOMAIN stats \cap RowIds(labels)) \cap DOMAIN condensed |->
     LET statuses == GroupList(labels, id)
         status == statuses[Len(statuses)]
     IN [ratingStatus |-> status,
         activeRules |-> condensed[id],
         count |-> Len(statuses)
                     * (IF id \in TableIds(columns) THEN columns.rows[id].count ELSE 1),
         vals |-> [f \in columns.columns |->
                     IF id \in TableIds(columns) THEN columns.rows[id].vals[f] ELSE NaN],
         currentlyRatedHelpfulBool |-> status = currentlyRatedHelpful,
         currentlyRatedNotHelpfulBool |-> status # currentlyRatedHelpful,
         awaitingMoreRatingsBool |-> status = needsMoreRatings]]

\* Lines 254-256 and 259-265: the rows of scoredNotes for each input id.
MergeScored(stats, labels, condensed, columns) ==
  [id \in (DOMAIN stats \cap RowIds(labels)) \cap DOMAIN condensed |->
     LET statuses == GroupList(labels, id)
         status == statuses[Len(statuses)]
     IN [ratingStatus |-> status,
         activeRules |-> condensed[id],
         count |-> Len(statuses)
                     * (IF id \in TableIds(columns) THEN columns.rows[id].count ELSE 1),
         vals |-> [f \in columns.columns |->
                     IF id \in TableIds(columns) THEN columns.rows[id].vals[f] ELSE NaN],
         currentlyRatedHelpfulBool |-> status = currentlyRatedHelpful,
         currentlyRatedNotHelpfulBool |-> status = currentlyRatedNotHelpful,
         awaitingMoreRatingsBool |-> status = needsMoreRatings]]

\* len(scoredNotes)
RowCount(scored) == SumOver([id \in DOMAIN scored |-> scored[id].count], DOMAIN scored)

\* Line 250: TRUE when the assertion passes.
LabelsComplete(stats, labels) == DOMAIN stats = RowIds(labels)

\* Line 251: TRUE when the assertion passes.
RulesComplete(stats, condensed) == DOMAIN stats = DOMAIN condensed

\* Line 252: TRUE when the assertion passes.
ColumnsWithin(stats, columns) == TableIds(columns) \ DOMAIN stats = {}

RowCountMatches_skipped(stats, scored) == TRUE

\* Line 257: TRUE when the assertion passes.
RowCountMatches(stats, scored) == RowCount(scored) = Cardinality(DOMAIN stats)

Fail_continue(what) ==
  /\ pc' = pc
  /\ failure' = what

\* An assertion fails: the exception leaves apply_scoring_rules.
Fail(what) ==
  /\ pc' = "failed"
  /\ failure' = what

\* One iteration of the loop, lines 213-242, for `rule`.
Apply(rule) ==
  /\ i' = i + 1
  /\ UNCHANGED <<noteStats, run, scoredNotes, firstRun>>
  /\ IF ~check_dependencies(rule, ruleIDs)
     THEN /\ Fail("check_dependencies")
          /\ UNCHANGED <<ruleIDs, noteLabels, noteRules, noteColumns, calls>>
     ELSE IF ~RuleIdIsNew(rule, ruleIDs)
     THEN /\ Fail("repeat ruleID")
          /\ UNCHANGED <<ruleIDs, noteLabels, noteRules, noteColumns, calls>>
     ELSE
       LET result == score_notes(rule, noteStats, noteLabels)
           additionalColumns == result.additionalColumns
       IN /\ ruleIDs' = ruleIDs \cup {get_rule_id(rule)}
          /\ calls' = Append(calls, [rule |-> i + 1,
                                     priorRules |-> ruleIDs,
                                     currentLabels |-> noteLabels,
                                     activeNotes |-> result.activeNotes,
                                     additionalColumns |-> additionalColumns])
          /\ IF ~SupplementalIdsMatch(result)
             THEN /\ Fail("additionalColumns ids")
                  /\ UNCHANGED <<noteLabels, noteRules, noteColumns>>
             ELSE /\ noteLabels' = UpdateLabels(noteLabels, result.activeNotes, get_status(rule))
                  /\ noteRules' = UpdateRules(noteRules, result.activeNotes, get_name(rule))
                  /\ IF additionalColumns = None
                     THEN UNCHANGED <<pc, failure, noteColumns>>
                     ELSE IF ~ColumnsDisjoint(noteColumns, Get(additionalColumns))
                     THEN /\ Fail("column collision")
                          /\ UNCHANGED noteColumns
                     ELSE /\ noteColumns' = OuterMerge(noteColumns, Get(additionalColumns))
                          /\ UNCHANGED <<pc, failure>>

\* The loop reaches the next rule of a list not read before.
ApplyRule(rule) ==
  /\ pc = "loop"
  /\ run = 1
  /\ i = Len(rules)
  /\ Len(rules) < MaxRules
  /\ rules' = Append(rules, rule)
  /\ Apply(rule)

\* The loop reaches the next rule of the list it was given.
ApplyListed ==
  /\ pc = "loop"
  /\ i < Len(rules)
  /\ UNCHANGED rules
  /\ Apply(rules[i + 1])

\* The list is exhausted: lines 243-267.
Finish ==
  /\ pc = "loop"
  /\ i = Len(rules)
  /\ UNCHANGED <<noteStats, rules, run, i, ruleIDs, noteLabels, noteRules,
                 noteColumns, calls, firstRun>>
  /\ LET condensed == CondenseRules(noteRules)
         scored == MergeScored(noteStats, noteLabels, condensed, noteColumns)
     IN IF ~LabelsComplete(noteStats, noteLabels)
        THEN Fail("labels") /\ UNCHANGED scoredNotes
        ELSE IF ~RulesComplete(noteStats, condensed)
        THEN Fail("rules") /\ UNCHANGED scoredNotes
        ELSE IF ~ColumnsWithin(noteStats, noteColumns)
        THEN Fail("columns") /\ UNCHANGED scoredNotes
        ELSE IF ~RowCountMatches(noteStats, scored)
        THEN Fail("row count") /\ UNCHANGED scoredNotes
        ELSE /\ pc' = "done"
             /\ scoredNotes' = Some(scored)
             /\ UNCHANGED failure

Outcome == [pc |-> pc, failure |-> failure, scoredNotes |-> scoredNotes]

\* apply_scoring_rules is called again with the same noteStats and rules.
Rerun ==
  /\ pc \in {"done", "failed"}
  /\ run = 1
  /\ run' = 2
  /\ firstRun' = Some(Outcome)
  /\ pc' = "loop"
  /\ i' = 0
  /\ failure' = "none"
  /\ scoredNotes' = None
  /\ calls' = <<>>
  /\ noteLabels' = EmptyLabels
  /\ noteRules' = EmptyNoteRules
  /\ noteColumns' = EmptyNoteColumns
  /\ ruleIDs' = EmptyRuleIDs
  /\ UNCHANGED <<noteStats, rules>>

(***************************** inputs **************************************)

NoteRow(intercept, adjusted, ratio) ==
  [intercept |-> intercept, adjusted |-> adjusted, ratio |-> ratio]

\* Statistics at the floor / at the threshold of every tag: no tag triggers.
AtFloor == [tag \in Tags |-> 1]
AtThreshold == get_tag_thresholds(<<>>, 0)

\* Rows of the engine runs: a low note no tag triggers for, and a note above
\* the helpful cut whose spam statistics are above floor and threshold.
EngineRows ==
  { NoteRow(0, AtFloor, AtThreshold),
    NoteRow(1, [AtFloor EXCEPT !["spam"] = 2], [AtThreshold EXCEPT !["spam"] = 2]) }

EngineInputs ==
  UNION {[ids -> EngineRows] : ids \in SUBSET NoteIds \ {{}}}

\* The results of the other ScoringRule subclasses of the runs.
FooTable(ids, count) ==
  Table({"foo"}, [id \in ids |-> [count |-> count, vals |-> [f \in {"foo"} |-> "x"]]])

BarTable(ids) ==
  Table({"bar"}, [id \in ids |-> [count |-> 1, vals |-> [f \in {"bar"} |-> "y"]]])

CustomRules ==
  { ScoringRule("TAG_OUTLIER", currentlyRatedNotHelpful, {}, "Custom", NoFunction,
                ScoreResult(NoteIds, Some(FooTable(NoteIds, 1)))),
    ScoringRule("GENERAL_CRNH", currentlyRatedNotHelpful, {}, "Custom", NoFunction,
                ScoreResult(NoteIds, Some(FooTable(NoteIds, 1)))),
    ScoringRule("GENERAL_CRNH", currentlyRatedNotHelpful, {}, "Custom", NoFunction,
                ScoreResult({1}, Some(BarTable({1})))),
    ScoringRule("GENERAL_CRNH", currentlyRatedNotHelpful, {}, "Custom", NoFunction,
                ScoreResult({1}, Some(FooTable(NoteIds, 1)))),
    ScoringRule("GENERAL_CRNH", currentlyRatedNotHelpful, {}, "Custom", NoFunction,
                ScoreResult(NoteIds, Some(FooTable({1}, 1)))),
    ScoringRule("GENERAL_CRNH", currentlyRatedNotHelpful, {}, "Custom", NoFunction,
                ScoreResult(NoteIds, Some(FooTable(NoteIds, 2)))) }

InitialNMR ==
  ScoringRule("INITIAL_NMR", needsMoreRatings, {}, "DefaultRule", NoFunction, NoResult)

GeneralCRH ==
  ScoringRule("GENERAL_CRH", currentlyRatedHelpful, {"INITIAL_NMR"},
              "RuleFromFunction", "interceptAbove0", NoResult)

TagFilter ==
  ScoringRule("TAG_OUTLIER", needsMoreRatings, {"GENERAL_CRH"},
              "FilterTagOutliers", NoFunction, NoResult)

BuiltinRules ==
  { InitialNMR, GeneralCRH, TagFilter,
    ScoringRule("GENERAL_CRH", "HELPFUL", {}, "RuleFromFunction", "always", NoResult),
    ScoringRule("GENERAL_CRNH", currentlyRatedNotHelpful, {"INITIAL_NMR"},
                "RuleFromFunction", "interceptBelow1", NoResult),
    ScoringRule("GENERAL_CRNH", needsMoreRatings, {}, "FilterTagOutliers", NoFunction, NoResult),
    ScoringRule("TAG_OUTLIER", needsMoreRatings, {"TAG_OUTLIER"},
                "RuleFromFunction", "always", NoResult) }

RuleMenu == BuiltinRules \cup CustomRules

(*************************** specifications ********************************)

Init ==
  /\ noteStats \in EngineInputs
  /\ rules = <<>>
  /\ run = 1
  /\ pc = "loop"
  /\ i = 0
  /\ ruleIDs = {}
  /\ noteLabels = EmptyLabels
  /\ noteRules = EmptyNoteRules
  /\ noteColumns = EmptyNoteColumns
  /\ calls = <<>>
  /\ failure = "none"
  /\ scoredNotes = None
  /\ firstRun = None

Next ==
  \/ \E rule \in RuleMenu : ApplyRule(rule)
  \/ ApplyListed
  \/ Finish
  \/ Rerun

Spec == Init /\ [][Next]_vars

\* Runs of the usual pipeline, default rule, helpful cut, tag filter, over
\* notes whose statistics sit at and around every bound the filter compares.
FilterRows ==
  { NoteRow(intercept,
            [tag \in Tags |-> IF tag = "spam" THEN spam[1] ELSE 2],
            [tag \in Tags |-> IF tag = "spam" THEN spam[2]
                              ELSE IF tag = "harassment" THEN harassment ELSE 2]) :
      intercept \in 0..3, spam \in {<<2, 2>>, <<1, 2>>, <<2, 1>>}, harassment \in {2, 3} }

FilterInputs ==
  UNION {[ids -> FilterRows] : ids \in SUBSET NoteIds \ {{}}}

FilterRules == <<InitialNMR, GeneralCRH, TagFilter>>

InitFilter ==
  /\ noteStats \in FilterInputs
  /\ rules = FilterRules
  /\ run = 1
  /\ pc = "loop"
  /\ i = 0
  /\ ruleIDs = {}
  /\ noteLabels = EmptyLabels
  /\ noteRules = EmptyNoteRules
  /\ noteColumns = EmptyNoteColumns
  /\ calls = <<>>
  /\ failure = "none"
  /\ scoredNotes = None
  /\ firstRun = None

NextFilter ==
  \/ ApplyListed
  \/ Finish

SpecFilter == InitFilter /\ [][NextFilter]_vars

(******************************* claims ************************************)

Input == DOMAIN noteStats

Returned == pc = "done"

Aborted == pc = "failed"

\* The rule whose score_notes the k-th invocation of this run called.
RuleOf(k) == rules[calls[k].rule]

\* The identities of the rules that precede position k of the list.
PriorIds(k) == {rules[j].ruleID : j \in 1..(k - 1)}

Max(S) == CHOOSE x \in S : \A y \in S : y <= x

\* Among the first n invocations, those whose matched ids contain id.
MatchingCalls(id, n) == {k \in 1..n : id \in calls[k].activeNotes}

MatchedIds(n) == UNION {calls[k].activeNotes : k \in 1..n}

\* The label assignment read as a mapping: each labelled id and the status of
\* its last row.
Labels ==
  [id \in RowIds(noteLabels) |->
     GroupList(noteLabels, id)[Len(GroupList(noteLabels, id))]]

\* The labels passed to the k-th invocation hold id as helpful.
PassedAsHelpful(k, id) ==
  \E n \in 1..Len(calls[k].currentLabels) :
    calls[k].currentLabels[n] = <<id, "CURRENTLY_RATED_HELPFUL">>

\* The labels that result from merging the first n invocations, the status of
\* the last rule that matched each note.
LastWriteLabels(n) ==
  [id \in MatchedIds(n) |-> RuleOf(Max(MatchingCalls(id, n))).status]

\* The display names of the rules among the first n invocations that matched
\* id, in invocation order.
RECURSIVE MatchedNames(_, _)
MatchedNames(id, n) ==
  IF n = 0 THEN <<>>
  ELSE MatchedNames(id, n - 1)
         \o (IF id \in calls[n].activeNotes
             THEN <<RuleAndVersion(RuleOf(n).ruleID).ruleName \o " (v"
                      \o RuleAndVersion(RuleOf(n).ruleID).ruleVersion \o ")">>
             ELSE <<>>)

\* Every rule read so far has its prerequisites among the rules before it.
RespectsDependencies ==
  \A k \in 1..Len(rules) : rules[k].dependencies \subseteq PriorIds(k)

UniqueIdentities ==
  \A j, k \in 1..Len(rules) : j # k => rules[j].ruleID # rules[k].ruleID

\* Every invocation kept the score_notes contract: matched ids among the input
\* ids, a supplemental table with exactly one row per matched id, and field
\* names no other rule of the run emits.
KeepsScoreContract ==
  /\ \A k \in 1..Len(calls) :
       /\ calls[k].activeNotes \subseteq Input
       /\ calls[k].additionalColumns # None =>
            LET t == Get(calls[k].additionalColumns)
            IN /\ TableIds(t) = calls[k].activeNotes
               /\ \A id \in TableIds(t) : t.rows[id].count = 1
  /\ \A j, k \in 1..Len(calls) :
       (j # k /\ calls[j].additionalColumns # None /\ calls[k].additionalColumns # None)
         => Get(calls[j].additionalColumns).columns
              \cap Get(calls[k].additionalColumns).columns = {}

\* The output has one row per input note and each row one status.
OneRowPerNote ==
  /\ scoredNotes # None
  /\ DOMAIN Get(scoredNotes) = Input
  /\ RowCount(Get(scoredNotes)) = Cardinality(Input)
  /\ \A id \in Input : Get(scoredNotes)[id].count = 1

\* C1 as stated: for any rule list respecting its own declared dependencies
\* and any input of N notes, the run produces an output with exactly N rows in
\* which every note has one final status.
C1_AnyOrderedListProducesOutput ==
  (pc # "loop" /\ RespectsDependencies) => (Returned /\ OneRowPerNote)

\* C1 amended: for a rule list that respects its declared dependencies, has
\* pairwise distinct identities and whose rules keep the score_notes contract,
\* the run produces an output with exactly N rows and one final status per
\* note when every note is matched by some rule, and otherwise aborts at the
\* label completeness check.
C1_CoveringListProducesOutput ==
  (pc # "loop" /\ RespectsDependencies /\ UniqueIdentities /\ KeepsScoreContract)
    => IF MatchedIds(Len(calls)) = Input
       THEN /\ Returned
            /\ OneRowPerNote
            /\ \A id \in Input : Get(scoredNotes)[id].ratingStatus = Labels[id]
       ELSE Aborted /\ failure = "labels"

\* A run of three rules, two of them with supplemental columns, covers both
\* notes and returns.
C1_Witness ==
  /\ Returned
  /\ RespectsDependencies /\ UniqueIdentities /\ KeepsScoreContract
  /\ Cardinality(Input) = 2
  /\ Len(calls) = 3
  /\ Cardinality(noteColumns.columns) = 2

\* C2: whenever the run returns a result, the ids holding a label and the ids
\* holding an audit entry are exactly the input ids, the ids holding
\* supplemental columns are input ids, and the result has exactly one row per
\* input note.
C2_ReturnedResultIsComplete ==
  Returned =>
    /\ RowIds(noteLabels) = Input
    /\ RowIds(noteRules) = Input
    /\ TableIds(noteColumns) \subseteq Input
    /\ OneRowPerNote

\* A returned run in which one rule matched only part of the input and
\* supplemental columns exist for part of the input only.
C2_Witness ==
  /\ Returned
  /\ Cardinality(Input) = 2
  /\ TableIds(noteColumns) # {}
  /\ TableIds(noteColumns) # Input
  /\ \E k \in 1..Len(calls) : calls[k].activeNotes # Input

\* C3: in every completed run the final status of each note is the status of
\* the last rule, in list order, whose matched ids contain the note.
C3_LastWriteWins ==
  Returned =>
    /\ Len(calls) = Len(rules)
    /\ \A k \in 1..Len(calls) : calls[k].rule = k
    /\ \A id \in Input :
         /\ MatchingCalls(id, Len(calls)) # {}
         /\ Get(scoredNotes)[id].ratingStatus
              = rules[Max(MatchingCalls(id, Len(calls)))].status

\* The default rule labels every note, a later rule overwrites one note with
\* another status and leaves the other note with the default's status.
C3_Witness ==
  /\ Returned
  /\ \E a, b \in Input :
       /\ Cardinality(MatchingCalls(a, Len(calls))) >= 2
       /\ Get(scoredNotes)[a].ratingStatus # rules[1].status
       /\ MatchingCalls(b, Len(calls)) = {1}
       /\ Get(scoredNotes)[b].ratingStatus = rules[1].status
  /\ Len(rules) >= 2

\* C4: score_notes is invoked only for a rule whose prerequisites are all in
\* the executed-identity set; a rule reached with a prerequisite absent stops
\* the run at its dependency check, and neither it nor a later rule is scored
\* or applied.
C4_DependenciesBeforeScoring ==
  /\ \A k \in 1..Len(calls) : RuleOf(k).dependencies \subseteq calls[k].priorRules
  /\ (i >= 1 /\ ~(rules[i].dependencies \subseteq PriorIds(i))) =>
       /\ Aborted
       /\ failure = "check_dependencies"
       /\ \A k \in 1..Len(calls) : calls[k].rule < i
       /\ ruleIDs = PriorIds(i)
       /\ Labels = LastWriteLabels(Len(calls))
       /\ Len(noteRules) = SumOver([k \in 1..Len(calls) |-> Cardinality(calls[k].activeNotes)],
                                   1..Len(calls))
  /\ failure = "check_dependencies" => ~(rules[i].dependencies \subseteq ruleIDs)

\* Two rules ran, one of them with a satisfied prerequisite, and the third is
\* reached with a prerequisite that has not executed.
C4_Witness ==
  /\ failure = "check_dependencies"
  /\ i = 3
  /\ Len(calls) = 2
  /\ \E k \in 1..Len(calls) : RuleOf(k).dependencies # {}

\* C5: no identity is executed twice; a rule whose identity already belongs to
\* an earlier rule of the list stops the run when it is reached, before its
\* score_notes is invoked and before its status is applied.
C5_NoIdentityExecutedTwice ==
  /\ \A j, k \in 1..Len(calls) : j # k => RuleOf(j).ruleID # RuleOf(k).ruleID
  /\ (i >= 1 /\ rules[i].ruleID \in PriorIds(i)) =>
       /\ Aborted
       /\ failure \in {"check_dependencies", "repeat ruleID"}
       /\ \A k \in 1..Len(calls) : calls[k].rule < i
       /\ Labels = LastWriteLabels(Len(calls))
       /\ Len(noteRules) = SumOver([k \in 1..Len(calls) |-> Cardinality(calls[k].activeNotes)],
                                   1..Len(calls))
  /\ failure = "repeat ruleID" => rules[i].ruleID \in PriorIds(i)

\* The third rule of the list repeats the identity of an earlier rule that
\* ran, with another status.
C5_Witness ==
  /\ failure = "repeat ruleID"
  /\ i = 3
  /\ Len(calls) = 2
  /\ \E k \in 1..2 : rules[k].ruleID = rules[3].ruleID /\ rules[k].status # rules[3].status

\* The rows the first n invocations add to noteRules.
AuditRows(n) ==
  SumOver([k \in 1..n |-> Cardinality(calls[k].activeNotes)], 1..n)

\* C6: in every completed run the audit entry of each note is the display
\* names "<name> (v<version>)" of exactly the rules that matched the note, in
\* the order the rules were applied, comma-joined.
C6_AuditIsMatchedNamesInOrder ==
  Returned =>
    \A id \in Input :
      Get(scoredNotes)[id].activeRules = Join(MatchedNames(id, Len(calls)))

\* Three rules ran; one note was matched by the first two, the other note by
\* the first rule only.
C6_Witness ==
  /\ Returned
  /\ Len(calls) = 3
  /\ \E a, b \in Input :
       /\ Get(scoredNotes)[a].activeRules = "InitialNMR (v1.0),GeneralCRH (v1.0)"
       /\ Get(scoredNotes)[b].activeRules = "InitialNMR (v1.0)"

\* The k-th invocation returned supplemental columns whose ids are not its
\* matched ids.
SupplementalMismatch(k) ==
  /\ calls[k].additionalColumns # None
  /\ TableIds(Get(calls[k].additionalColumns)) # calls[k].activeNotes

\* The field names and the ids of the supplemental tables the first n
\* invocations returned.
EmittedFields(n) ==
  UNION {Get(calls[k].additionalColumns).columns :
           k \in {j \in 1..n : calls[j].additionalColumns # None}}

EmittedIds(n) ==
  UNION {TableIds(Get(calls[k].additionalColumns)) :
           k \in {j \in 1..n : calls[j].additionalColumns # None}}

\* C7: a rule that returns supplemental columns whose id set differs from its
\* matched ids stops the run at that rule, before its status and its display
\* name are merged into the labels and the audit log.
C7_SupplementalMismatchAborts ==
  /\ \A k \in 1..Len(calls) :
       SupplementalMismatch(k) =>
         /\ k = Len(calls)
         /\ Aborted
         /\ failure = "additionalColumns ids"
         /\ Labels = LastWriteLabels(k - 1)
         /\ Len(noteRules) = AuditRows(k - 1)
         /\ noteColumns.columns = EmittedFields(k - 1)
         /\ TableIds(noteColumns) = EmittedIds(k - 1)
  /\ failure = "additionalColumns ids" => SupplementalMismatch(Len(calls))

\* After a rule that ran, a rule matches every note and returns supplemental
\* columns for one note only.
C7_Witness ==
  /\ failure = "additionalColumns ids"
  /\ Len(calls) >= 2
  /\ TableIds(Get(calls[Len(calls)].additionalColumns)) # calls[Len(calls)].activeNotes
  /\ TableIds(Get(calls[Len(calls)].additionalColumns)) \subseteq calls[Len(calls)].activeNotes
  /\ calls[Len(calls)].activeNotes = Input
  /\ noteLabels # <<>>

\* Invocations j and k both returned a supplemental field of the same name.
SharedField(j, k) ==
  /\ calls[j].additionalColumns # None
  /\ calls[k].additionalColumns # None
  /\ Get(calls[j].additionalColumns).columns
       \cap Get(calls[k].additionalColumns).columns # {}

\* C8: when two rules of a run emit a supplemental field of the same name the
\* run aborts at the second of them and returns nothing; in a completed run
\* every supplemental field name comes from one rule.
C8_FieldCollisionAborts ==
  /\ \A j, k \in 1..Len(calls) :
       (j < k /\ SharedField(j, k)) =>
         /\ k = Len(calls)
         /\ Aborted
         /\ failure \in {"additionalColumns ids", "column collision"}
         /\ scoredNotes = None
  /\ Returned => \A j, k \in 1..Len(calls) : j < k => ~SharedField(j, k)
  /\ failure = "column collision" =>
       \E j \in 1..(Len(calls) - 1) : SharedField(j, Len(calls))

\* Two tag filters with different identities both emit activeFilterTags.
C8_Witness ==
  /\ failure = "column collision"
  /\ Len(calls) = 3
  /\ SharedField(2, 3)
  /\ activeFilterTagsKey \in noteColumns.columns

HelpfulStats(k) ==
  [id \in {n \in Input : PassedAsHelpful(k, n)} |-> noteStats[id]]

\* C10: the tag filter matches a note exactly when the note is currently
\* labelled helpful and some non-exempted tag has adjusted total above
\* minAdjustedTotal and adjusted ratio above the tag's threshold while the
\* note intercept is below crhSuperThreshold, all three strictly.
C10_TagFilterMatch ==
  \A k \in 1..Len(calls) :
    RuleOf(k).kind = "FilterTagOutliers" =>
      calls[k].activeNotes =
        {id \in Input :
           /\ PassedAsHelpful(k, id)
           /\ \E tag \in Tags \ {"hardToUnderstand", "noteNotNeeded"} :
                /\ noteStats[id].adjusted[tag] > RuleOf(k).minAdjustedTotal
                /\ noteStats[id].ratio[tag]
                     > get_tag_thresholds(HelpfulStats(k), RuleOf(k).tagRatioPercentile)[tag]
                /\ noteStats[id].intercept < RuleOf(k).crhSuperThreshold}

\* The filter matched one helpful note and left alone a helpful note whose
\* spam statistics qualify and whose intercept equals crhSuperThreshold.
C10_Witness ==
  \E k \in 1..Len(calls) :
    /\ RuleOf(k).kind = "FilterTagOutliers"
    /\ calls[k].activeNotes # {}
    /\ \E id \in Input \ calls[k].activeNotes :
         /\ PassedAsHelpful(k, id)
         /\ noteStats[id].intercept = RuleOf(k).crhSuperThreshold
         /\ noteStats[id].adjusted["spam"] > RuleOf(k).minAdjustedTotal
         /\ noteStats[id].ratio["spam"] > 1

\* The statistics of id meet the three strict conditions of the filter on tag
\* at the k-th invocation.
Qualifies(k, id, tag) ==
  /\ noteStats[id].adjusted[tag] > RuleOf(k).minAdjustedTotal
  /\ noteStats[id].ratio[tag]
       > get_tag_thresholds(HelpfulStats(k), RuleOf(k).tagRatioPercentile)[tag]
  /\ noteStats[id].intercept < RuleOf(k).crhSuperThreshold

ExemptTags == {"hardToUnderstand", "noteNotNeeded"}

\* id qualifies on an exempted tag and on no other tag.
QualifiesOnlyOnExempt(k, id) ==
  /\ \E tag \in ExemptTags : Qualifies(k, id, tag)
  /\ \A tag \in Tags \ ExemptTags : ~Qualifies(k, id, tag)

\* The joins of one or two non-exempted tag names.
ExemptFreeValues ==
  {Join(<<a>>) : a \in Tags \ ExemptTags}
    \cup {Join(<<a, b>>) : a \in Tags \ ExemptTags, b \in Tags \ ExemptTags}

\* C11: a note that qualifies only on an exempted tag (hardToUnderstand,
\* noteNotNeeded) is not matched by the tag outlier filter and keeps the
\* label it had when the filter was invoked, and no activeFilterTags value,
\* in the filter's table or in the returned table, names an exempted tag.
C11_ExemptTagsNeverFilter ==
  /\ \A k \in 1..Len(calls) :
       RuleOf(k).kind = "FilterTagOutliers" =>
         /\ \A id \in Input :
              QualifiesOnlyOnExempt(k, id) =>
                /\ id \notin calls[k].activeNotes
                /\ k = Len(calls) =>
                     GroupList(noteLabels, id) = GroupList(calls[k].currentLabels, id)
         /\ calls[k].additionalColumns # None
         /\ \A id \in TableIds(Get(calls[k].additionalColumns)) :
              Get(calls[k].additionalColumns).rows[id].vals["activeFilterTags"]
                \in ExemptFreeValues
  /\ Returned =>
       \A id \in DOMAIN Get(scoredNotes) :
         "activeFilterTags" \in DOMAIN Get(scoredNotes)[id].vals =>
           Get(scoredNotes)[id].vals["activeFilterTags"] \in ExemptFreeValues \cup {NaN}

\* The run returned; the filter matched one note and left alone a helpful
\* note below crhSuperThreshold that qualifies only on exempted tags.
C11_Witness ==
  /\ Returned
  /\ \E k \in 1..Len(calls) :
       /\ RuleOf(k).kind = "FilterTagOutliers"
       /\ calls[k].activeNotes # {}
       /\ \E id \in Input \ calls[k].activeNotes :
            /\ PassedAsHelpful(k, id)
            /\ QualifiesOnlyOnExempt(k, id)
            /\ Get(scoredNotes)[id].ratingStatus = "CURRENTLY_RATED_HELPFUL"

\* The non-exempted tags id qualifies on at the k-th invocation, in the order
\* of the fixed tag list.
TriggeredTags(k, id) ==
  LET Triggered(tag) == tag \notin ExemptTags /\ Qualifies(k, id, tag)
  IN SelectSeq(notHelpfulTagsTSVOrder, Triggered)

\* C12: for every note the tag outlier filter matches, activeFilterTags is the
\* comma-joined list of exactly the non-exempted tags the note triggered, each
\* once, in the order of the fixed tag list ("spam,harassment" when both
\* trigger); the filter's supplemental table has exactly one row per matched
\* id, and the returned table carries the same value for each matched note.
C12_ActiveFilterTagsJoined ==
  \A k \in 1..Len(calls) :
    RuleOf(k).kind = "FilterTagOutliers" =>
      /\ calls[k].additionalColumns # None
      /\ TableIds(Get(calls[k].additionalColumns)) = calls[k].activeNotes
      /\ \A id \in calls[k].activeNotes :
           LET row == Get(calls[k].additionalColumns).rows[id]
           IN /\ row.count = 1
              /\ TriggeredTags(k, id) # <<>>
              /\ row.vals["activeFilterTags"] = Join(TriggeredTags(k, id))
              /\ (Qualifies(k, id, "spam") /\ Qualifies(k, id, "harassment"))
                   => row.vals["activeFilterTags"] = "spam,harassment"
              /\ (Qualifies(k, id, "spam") /\ ~Qualifies(k, id, "harassment"))
                   => row.vals["activeFilterTags"] = "spam"
              /\ (~Qualifies(k, id, "spam") /\ Qualifies(k, id, "harassment"))
                   => row.vals["activeFilterTags"] = "harassment"
              /\ Returned =>
                   Get(scoredNotes)[id].vals["activeFilterTags"]
                     = row.vals["activeFilterTags"]

\* The run returned after the filter matched a note that triggered both spam
\* and harassment and a note that triggered harassment alone.
C12_Witness ==
  /\ Returned
  /\ \E k \in 1..Len(calls) :
       /\ RuleOf(k).kind = "FilterTagOutliers"
       /\ \E a \in calls[k].activeNotes, b \in calls[k].activeNotes :
            /\ Qualifies(k, a, "spam") /\ Qualifies(k, a, "harassment")
            /\ ~Qualifies(k, b, "spam") /\ Qualifies(k, b, "harassment")
            /\ Get(scoredNotes)[a].vals["activeFilterTags"] = "spam,harassment"
            /\ Get(scoredNotes)[b].vals["activeFilterTags"] = "harassment"

\* Some supplemental table of the run holds several rows for one id.
DuplicateSupplementalRow ==
  \E k \in 1..Len(calls) :
    /\ calls[k].additionalColumns # None
    /\ \E id \in TableIds(Get(calls[k].additionalColumns)) :
         Get(calls[k].additionalColumns).rows[id].count > 1

\* The run is in one piece: rules 1..i were reached in list order, each scored
\* once, and unless the run aborted every one of them is merged whole.
NoRetryNoSkip ==
  /\ \A k \in 1..Len(calls) : calls[k].rule = k
  /\ Len(calls) <= i /\ i <= Len(calls) + 1
  /\ ~Aborted =>
       /\ Len(calls) = i
       /\ ruleIDs = PriorIds(i + 1)
       /\ Labels = LastWriteLabels(i)
       /\ Len(noteRules) = AuditRows(i)
       /\ noteColumns.columns = EmittedFields(i)
       /\ TableIds(noteColumns) = EmittedIds(i)

\* Each failure mode stops the run, and a stopped run holds no result.
EveryFailureAborts ==
  /\ failure \in {"none", "check_dependencies", "repeat ruleID", "additionalColumns ids",
                  "column collision", "labels", "rules", "columns", "row count"}
  /\ Aborted <=> failure # "none"
  /\ Returned <=> scoredNotes # None
  /\ (i >= 1 /\ rules[i].ruleID \in PriorIds(i)) => Aborted
  /\ (i >= 1 /\ ~(rules[i].dependencies \subseteq PriorIds(i))) => Aborted
  /\ (\E k \in 1..Len(calls) : SupplementalMismatch(k)) => Aborted
  /\ (\E j, k \in 1..Len(calls) : j < k /\ SharedField(j, k)) => Aborted
  /\ (pc # "loop" /\ MatchedIds(Len(calls)) # Input) => Aborted
  /\ (pc # "loop" /\ DuplicateSupplementalRow) => Aborted
  /\ Returned => /\ i = Len(rules)
                 /\ OneRowPerNote

\* C13: every failure mode (duplicate identity, unmet prerequisite,
\* supplemental id mismatch, field-name collision, post-run incompleteness,
\* row-count mismatch) aborts the run and no result is returned; each rule is
\* applied whole or the run aborts; no rule is retried or skipped, and an
\* aborted run takes no further step of its own.
C13_FailureAbortsWholeRun ==
  /\ [](EveryFailureAborts /\ NoRetryNoSkip)
  /\ [][/\ Aborted => (run = 1 /\ run' = 2)
        /\ (i' = i + 1 \/ i' = i \/ (i' = 0 /\ run' # run))]_vars

\* Three rules were scored and merged and the run aborted at the final
\* row-count check without a result.
C13_Witness ==
  /\ Aborted
  /\ failure = "row count"
  /\ scoredNotes = None
  /\ Len(calls) = 3
  /\ RowIds(noteLabels) = Input

\* No two rows of a label table carry the same id.
OneRowPerId(rows) ==
  \A m, n \in 1..Len(rows) : m # n => rows[m][1] # rows[n][1]

\* C14: at every point of a run, after each rule's merge step and for every
\* rule sequence and matched-id sets, the label assignment holds at most one
\* status per note id; so do the labels handed to each rule's score_notes.
C14_OneLabelPerId ==
  /\ OneRowPerId(noteLabels)
  /\ \A k \in 1..Len(calls) : OneRowPerId(calls[k].currentLabels)

\* Two rules with different statuses have both matched the same note and the
\* second has been merged.
C14_Witness ==
  /\ failure = "none"
  /\ Len(calls) >= 2
  /\ \E id \in Input :
       /\ Cardinality(MatchingCalls(id, Len(calls))) >= 2
       /\ \E j \in MatchingCalls(id, Len(calls)) : RuleOf(j).status # Labels[id]
       /\ Len(GroupList(noteLabels, id)) = 1

\* Position p holds the first rule of the list with a prerequisite that no
\* rule before it carries.
FirstOffending(p) ==
  /\ ~(rules[p].dependencies \subseteq PriorIds(p))
  /\ \A q \in 1..(p - 1) : rules[q].dependencies \subseteq PriorIds(q)

C16_UnmatchedNotesUntouched ==
  [][run' = run =>
       \A id \in NoteIds :
         (Len(calls') = Len(calls) \/ id \notin calls'[Len(calls')].activeNotes) =>
           /\ GroupList(noteLabels', id) = GroupList(noteLabels, id)
           /\ GroupList(noteRules', id) = GroupList(noteRules, id)]_vars

\* The last rule merged matched some note and not another, labelled by an
\* earlier rule with a different status, which it still holds.
C16_Witness ==
  /\ failure = "none"
  /\ Len(calls) >= 2
  /\ calls[Len(calls)].activeNotes # {}
  /\ \E id \in RowIds(calls[Len(calls)].currentLabels) \ calls[Len(calls)].activeNotes :
       /\ Labels[id] # RuleOf(Len(calls)).status
       /\ GroupList(noteLabels, id) = GroupList(calls[Len(calls)].currentLabels, id)
       /\ Len(GroupList(noteRules, id)) = Cardinality(MatchingCalls(id, Len(calls) - 1))

\* Some rule scored so far is a default rule.
DefaultApplied == \E k \in 1..Len(calls) : RuleOf(k).kind = "DefaultRule"

\* C17: the default rule matches every id of the input table and returns no
\* supplemental columns; once a default rule has been applied every input
\* note has a label and an audit entry in every later state of the run; and a
\* run in which a default rule was applied and every rule matched input ids
\* only passes the label and audit completeness checks after the loop.
C17_DefaultRuleCoversInput ==
  /\ \A k \in 1..Len(calls) :
       RuleOf(k).kind = "DefaultRule" =>
         /\ calls[k].activeNotes = Input
         /\ calls[k].additionalColumns = None
  /\ DefaultApplied =>
       /\ Input \subseteq RowIds(noteLabels)
       /\ Input \subseteq RowIds(noteRules)
  /\ (DefaultApplied /\ \A k \in 1..Len(calls) : calls[k].activeNotes \subseteq Input) =>
       /\ failure \notin {"labels", "rules"}
       /\ LabelsComplete(noteStats, noteLabels)
       /\ RulesComplete(noteStats, CondenseRules(noteRules))

\* The run returned; its second rule was the default rule, applied after a
\* rule that had matched part of the input only.
C17_Witness ==
  /\ Returned
  /\ Len(calls) >= 2
  /\ RuleOf(2).kind = "DefaultRule"
  /\ calls[1].activeNotes # Input
  /\ calls[1].activeNotes # {}
  /\ calls[2].activeNotes = Input

CanonicalStatuses ==
  {"CURRENTLY_RATED_HELPFUL", "CURRENTLY_RATED_NOT_HELPFUL", "NEEDS_MORE_RATINGS"}

\* The indicator fields of an output row that are true.
TrueIndicators(row) ==
  {b \in {"currentlyRatedHelpfulBool", "currentlyRatedNotHelpfulBool",
          "awaitingMoreRatingsBool"} : row[b]}

\* C18: in every output row each of the three boolean indicator fields is
\* true exactly when the note's final status equals the corresponding
\* canonical status; at most one indicator is true, exactly one when the final
\* status is canonical, and none when a rule assigned a non-canonical status.
C18_IndicatorsFollowStatus ==
  Returned =>
    \A id \in DOMAIN Get(scoredNotes) :
      LET row == Get(scoredNotes)[id]
      IN /\ row.ratingStatus = rules[Max(MatchingCalls(id, Len(calls)))].status
         /\ row.currentlyRatedHelpfulBool
              <=> (row.ratingStatus = "CURRENTLY_RATED_HELPFUL")
         /\ row.currentlyRatedNotHelpfulBool
              <=> (row.ratingStatus = "CURRENTLY_RATED_NOT_HELPFUL")
         /\ row.awaitingMoreRatingsBool
              <=> (row.ratingStatus = "NEEDS_MORE_RATINGS")
         /\ Cardinality(TrueIndicators(row)) <= 1
         /\ row.ratingStatus \in CanonicalStatuses
              => Cardinality(TrueIndicators(row)) = 1
         /\ row.ratingStatus \notin CanonicalStatuses
              => TrueIndicators(row) = {}

\* A returned table with a note whose final status is not canonical and has
\* no indicator set, next to a note rated not helpful with one indicator set.
C18_Witness ==
  /\ Returned
  /\ \E a, b \in DOMAIN Get(scoredNotes) :
       /\ Get(scoredNotes)[a].ratingStatus = "HELPFUL"
       /\ TrueIndicators(Get(scoredNotes)[a]) = {}
       /\ Get(scoredNotes)[b].ratingStatus = "CURRENTLY_RATED_NOT_HELPFUL"
       /\ TrueIndicators(Get(scoredNotes)[b]) = {"currentlyRatedNotHelpfulBool"}

\* The rule at position p names its own identity among its prerequisites.
SelfDependent(p) == rules[p].ruleID \in rules[p].dependencies

\* C19 as stated: a rule whose prerequisites contain its own identity never
\* executes, and the run always fails at that rule's dependency check,
\* wherever the rule is placed in the list.
C19_SelfDependentFailsDependencyCheck ==
  /\ \A k \in 1..Len(calls) : ~SelfDependent(calls[k].rule)
  /\ (i >= 1 /\ SelfDependent(i)) =>
       /\ Aborted
       /\ failure = "check_dependencies"

\* C19 amended: a rule whose prerequisites contain its own identity never
\* executes; the run fails when the loop reaches it, at its dependency check
\* when some prerequisite, its own identity included, belongs to no earlier
\* rule, and at the duplicate-identity assertion when every prerequisite,
\* hence its own identity, belongs to an earlier rule.
C19_SelfDependentNeverExecutes ==
  /\ \A k \in 1..Len(calls) : ~SelfDependent(calls[k].rule)
  /\ (i >= 1 /\ SelfDependent(i)) =>
       /\ Aborted
       /\ Len(calls) = i - 1
       /\ \A k \in 1..Len(calls) : calls[k].rule = k
       /\ failure = IF rules[i].dependencies \subseteq PriorIds(i)
                    THEN "repeat ruleID"
                    ELSE "check_dependencies"
       /\ rules[i].ruleID \notin PriorIds(i) => failure = "check_dependencies"
       /\ ruleIDs = PriorIds(i)
       /\ Labels = LastWriteLabels(i - 1)
       /\ Len(noteRules) = AuditRows(i - 1)

\* The second rule of the list depends on its own identity, which the first
\* rule, already scored and merged, carries too: the run stopped at the
\* duplicate-identity assertion.
C19_Witness ==
  /\ i = 2
  /\ SelfDependent(i)
  /\ rules[1].ruleID = rules[2].ruleID
  /\ Len(calls) = 1
  /\ Aborted
  /\ failure = "repeat ruleID"

====
